---- MODULE Spec2Model ----
(***************************************************************************)
(* A model of package feed (flashlight/feed/feed.go): the fetch pipeline   *)
(* doGetFeed, the normalizer processFeed, the accessors FeedByName,        *)
(* NumFeedEntries and CurrentFeed, and the locale resolution of            *)
(* getFeedURL / determineLocale.                                           *)
(*                                                                         *)
(* Representation.                                                         *)
(*   - A Go string that the code inspects character by character (locale,  *)
(*     country, URL, description, content) is a sequence of one-character  *)
(*     strings.  A Go string that is only compared or used as a map key    *)
(*     (source key, title, link, image, label) is a TLA+ string.           *)
(*   - A Go pointer or a map that may be nil is a sequence of length 0     *)
(*     (nil) or 1 (the value pointed to).  Every code path reaches a Feed  *)
(*     through the package variable feed, so the heap is that variable.    *)
(*   - A Go map is a function; its absent keys are outside its DOMAIN.     *)
(*   - A *FeedItem is the item it points to: a bucket holds the items as    *)
(*     they are when appended.  Within one invocation no item changes      *)
(*     after the description loop, which runs before any append.           *)
(*   - The documents carry every field and no JSON null among feeds or     *)
(*     entries.                                                            *)
(*   - A run-time panic (nil dereference, index out of range, failed type  *)
(*     assertion, write to a nil map) is recorded in the variable fault;   *)
(*     nothing in the package recovers, so the program stops there.        *)
(***************************************************************************)
EXTENDS Integers, Sequences, FiniteSets, TLC

VARIABLES
    feed,       \* the package variable feed *Feed (line 26)
    pc,         \* pc[p]: position of invocation p inside doGetFeed
    url,        \* url[p]: local feedURL of doGetFeed (line 136)
    proxy,      \* proxy[p]: parameter proxyAddr
    allStr,     \* allStr[p]: parameter allStr
    contents,   \* contents[p]: local contents (line 169), Nil or <<document>>
    bodyOpen,   \* bodyOpen[p]: res.Body of p is open
    added,      \* added[p]: the AddSource calls p's provider has received
    lastWriter, \* the invocation that finished last (0: none has)
    fetches,    \* number of doGetFeed invocations started
    lastCall,   \* the last accessor call and what it returned
    fault,      \* "none", or the panic that stopped the program
    lreq,       \* locale resolution: the locale string given by the caller
    lcountry,   \* locale resolution: what geolookup.GetCountry returns
    ltmpl,      \* locale resolution: the endpoint template
    lout        \* locale resolution: the last call and its result

vars == <<feed, pc, url, proxy, allStr, contents, bodyOpen, added, lastWriter,
          fetches, lastCall, fault, lreq, lcountry, ltmpl, lout>>

fetchVars == <<feed, pc, url, proxy, allStr, contents, bodyOpen, added,
               lastWriter, fetches, lastCall, fault>>

localeVars == <<lreq, lcountry, ltmpl, lout>>

\* nil pointer / nil map / nil interface
Nil == <<>>

\* a non-nil pointer to (or a non-nil map holding) x
Ref(x) == <<x>>

(***************************************************************************)
(* Strings                                                                 *)
(***************************************************************************)

UpperChars == <<"A","B","C","D","E","F","G","H","I","J","K","L","M",
                "N","O","P","Q","R","S","T","U","V","W","X","Y","Z">>

LowerChars == <<"a","b","c","d","e","f","g","h","i","j","k","l","m",
                "n","o","p","q","r","s","t","u","v","w","x","y","z">>

\* simple case folding of one ASCII character
FoldChar(c) ==
    IF \E i \in 1..Len(UpperChars) : UpperChars[i] = c
    THEN LowerChars[CHOOSE i \in 1..Len(UpperChars) : UpperChars[i] = c]
    ELSE c

\* a plausible slip: compare the strings exactly
EqualFold_exact(s, t) == s = t

\* strings.EqualFold on ASCII strings
EqualFold(s, t) ==
    /\ Len(s) = Len(t)
    /\ \A i \in 1..Len(s) : FoldChar(s[i]) = FoldChar(t[i])

WhiteSpace == {" ", "\t", "\n", "\r"}

RECURSIVE TrimLeft(_)
TrimLeft(s) ==
    IF s # <<>> /\ Head(s) \in WhiteSpace THEN TrimLeft(Tail(s)) ELSE s

RECURSIVE TrimRight(_)
TrimRight(s) ==
    IF s # <<>> /\ s[Len(s)] \in WhiteSpace
    THEN TrimRight(SubSeq(s, 1, Len(s) - 1))
    ELSE s

\* strings.TrimSpace
TrimSpace(s) == TrimRight(TrimLeft(s))

\* the verb %s of a format string, kept as one element of the template
Verb == "%s"

\* fmt.Sprintf(format, arg) with one string operand: the first verb takes the
\* operand, a later verb has none left
RECURSIVE SprintfFrom(_, _, _)
SprintfFrom(format, arg, used) ==
    IF format = <<>> THEN
        IF used THEN <<>> ELSE <<"%!(EXTRA string=">> \o arg \o <<")">>
    ELSE IF Head(format) = Verb THEN
        (IF used THEN <<"%!s(MISSING)">> ELSE arg)
            \o SprintfFrom(Tail(format), arg, TRUE)
    ELSE <<Head(format)>> \o SprintfFrom(Tail(format), arg, used)

Sprintf(format, arg) == SprintfFrom(format, arg, FALSE)

(***************************************************************************)
(* Locale resolution (lines 18-36, 130-136, 242-276)                       *)
(***************************************************************************)

en == <<"e","n","_","U","S">>
fa_IR == <<"f","a","_","I","R">>
fa == <<"f","a">>
ms_MY == <<"m","s","_","M","Y">>
zh_CN == <<"z","h","_","C","N">>

supportedLocales == {en, fa_IR, fa, ms_MY, zh_CN}

Https == <<"h","t","t","p","s",":","/","/">>
FeedJson == <<"/","f","e","e","d",".","j","s","o","n">>

defaultFeedEndpoint ==
    Https \o <<"f","e","e","d","s",".","g","e","t","i","a","n","t","e","m",
               ".","o","r","g","/">> \o <<Verb>> \o FeedJson

\* determineLocale: country is what geolookup.GetCountry would return;
\* lookedUp tells whether the lookup was made
determineLocale(defaultLocale, country) ==
    LET d == IF defaultLocale = <<>> THEN en ELSE defaultLocale IN
    IF ~EqualFold(en, d) THEN [locale |-> d, lookedUp |-> FALSE]
    ELSE IF country = <<>> THEN [locale |-> d, lookedUp |-> TRUE]
    ELSE IF EqualFold(<<"i","r">>, country)
        THEN [locale |-> fa_IR, lookedUp |-> TRUE]
    ELSE IF EqualFold(<<"m","y">>, country)
        THEN [locale |-> ms_MY, lookedUp |-> TRUE]
    ELSE [locale |-> d, lookedUp |-> TRUE]

\* getFeedURL
getFeedURL(feedEndpoint, defaultLocale, country) ==
    LET r == determineLocale(defaultLocale, country) IN
    [url |-> Sprintf(feedEndpoint, r.locale),
     locale |-> r.locale, lookedUp |-> r.lookedUp]

\* a plausible slip: keep the caller's locale when it is unsupported
fetchLocale_keep(locale) == locale

\* doGetFeed, lines 130-134: the locale handed to getFeedURL
fetchLocale(locale) == IF locale \notin supportedLocales THEN en ELSE locale

\* doGetFeed, lines 130-136
fetchURL(feedEndpoint, locale, country) ==
    getFeedURL(feedEndpoint, fetchLocale(locale), country)


(***************************************************************************)
(* Data model (lines 38-69)                                                *)
(***************************************************************************)

\* a map with no key (also what reading a nil map gives)
EmptyMap == <<>>

\* &Feed{}: the zero Feed (line 128).  Feeds never needs its nil-ness (it is
\* only read); Items does, because processFeed writes to it.
ZeroFeed == [Feeds |-> EmptyMap, Entries |-> <<>>, Items |-> Nil, Sorted |-> <<>>]

\* a plausible slip: an existing Feed is filled again instead of replaced
newFeed_reuse(fp) == IF fp = Nil THEN Ref(ZeroFeed) ELSE fp

\* line 128: feed = &Feed{}, whatever feed pointed to before
newFeed(fp) == Ref(ZeroFeed)

\* a Source as it arrives on the wire; FeedUrl and Url are never read
Source(title, excludeFromAll, entries) ==
    [Title |-> title, ExcludeFromAll |-> excludeFromAll, Entries |-> entries]

\* values of the free-form map FeedItem.Meta (map[string]interface{})
JSONNull == [kind |-> "null", val |-> <<>>]
JSONString(s) == [kind |-> "string", val |-> s]
JSONNumber == [kind |-> "number", val |-> <<"5">>]
JSONObject == [kind |-> "object", val |-> <<"{","}">>]

\* Meta without the key "description" / with it
NoMeta == EmptyMap
MetaWith(v) == [description |-> v]

\* the i-th FeedItem of a document as it arrives on the wire (Description
\* is json:"-", so it starts empty)
Item(tag, i, source, meta, content) ==
    [Title |-> tag \o ToString(i), Link |-> "link-" \o tag \o ToString(i),
     Image |-> "img-" \o tag \o ToString(i), Meta |-> meta,
     Content |-> content, Source |-> source, Description |-> <<>>]

\* json.Unmarshal(contents, feed) into the Feed f, for a document that is
\* valid JSON and carries every field: a map field keeps the keys it already
\* has and takes the document's, a slice field is replaced, and Items
\* (json:"-") is left as it is
Unmarshal(f, doc) ==
    [Feeds |-> doc.Feeds @@ f.Feeds, Entries |-> doc.Entries,
     Items |-> f.Items, Sorted |-> doc.Sorted]

(***************************************************************************)
(* Panics                                                                  *)
(***************************************************************************)

NoFault == "none"
NilFeedInProcess == "processFeed: nil pointer dereference (feed is nil)"
NilFeedInCount == "NumFeedEntries: nil pointer dereference (feed is nil)"
NotAString == "processFeed: interface conversion, meta description is not a string"
NilSource == "processFeed: nil pointer dereference (entry.Source is not in feed.Feeds)"
IndexOutOfRange == "processFeed: index out of range (feed.Entries[i])"
NilItemsMap == "processFeed: assignment to entry in nil map (feed.Items)"

(***************************************************************************)
(* processFeed (lines 186-237), one operator per loop.  Each takes the     *)
(* value of the package variable feed and gives the value it leaves there   *)
(* and the panic it ends in, if any.                                       *)
(***************************************************************************)

Outcome(fp, flt) == [feed |-> fp, fault |-> flt]

\* lines 188-190: len(feed.Entries), then feed.Items = make(...)
makeItems(fp) ==
    IF fp = Nil THEN Outcome(fp, NilFeedInProcess)
    ELSE Outcome(Ref([fp[1] EXCEPT !.Items = Ref(EmptyMap)]), NoFault)

\* entry.Meta["description"]: nil when the key is absent
metaDescription(entry) ==
    IF "description" \in DOMAIN entry.Meta
    THEN entry.Meta["description"] ELSE JSONNull

\* lines 195-196: aDesc != nil, and then the assertion aDesc.(string)
assertionFails(entry) ==
    metaDescription(entry).kind \notin {"null", "string"}

\* lines 194-201: the description of one entry whose assertion succeeds
describe(entry) ==
    LET aDesc == metaDescription(entry)
        desc == IF aDesc.kind = "string" THEN TrimSpace(aDesc.val) ELSE <<>>
    IN IF desc = <<>> THEN entry.Content ELSE desc

\* lines 193-203 from entry i on (1-based here): the loop stops at the first
\* entry whose assertion panics, the entries before it already described
RECURSIVE describeFrom(_, _)
describeFrom(f, i) ==
    IF i > Len(f.Entries) THEN Outcome(Ref(f), NoFault)
    ELSE IF assertionFails(f.Entries[i]) THEN Outcome(Ref(f), NotAString)
    ELSE describeFrom(
            [f EXCEPT !.Entries[i].Description = describe(f.Entries[i])], i + 1)

describeEntries(fp) ==
    IF fp = Nil THEN Outcome(fp, NilFeedInProcess) ELSE describeFrom(fp[1], 1)

\* line 209: feed.Feeds[entry.Source] is a nil *Source when the key is absent
sourceIsNil(f, entry) == entry.Source \notin DOMAIN f.Feeds

\* line 209: the condition under which an entry goes to the all bucket
inAll(f, entry) == ~f.Feeds[entry.Source].ExcludeFromAll

\* lines 207-212: the local slice all
allOf(f) == SelectSeq(f.Entries, LAMBDA e : inAll(f, e))

\* lines 207-213
buildAll(fp, label) ==
    IF fp = Nil THEN Outcome(fp, NilFeedInProcess)
    ELSE LET f == fp[1] IN
        IF \E i \in 1..Len(f.Entries) : sourceIsNil(f, f.Entries[i])
            THEN Outcome(fp, NilSource)
        ELSE IF f.Items = Nil THEN Outcome(fp, NilItemsMap)
        ELSE Outcome(
            Ref([f EXCEPT !.Items = Ref((label :> allOf(f)) @@ f.Items[1])]),
            NoFault)

\* a plausible slip: a source with an empty title is announced too
RECURSIVE sourceTitles_noSkip(_, _)
sourceTitles_noSkip(f, sorted) ==
    IF sorted = <<>> THEN <<>>
    ELSE LET source == Head(sorted)
             rest == sourceTitles_noSkip(f, Tail(sorted))
         IN IF source \in DOMAIN f.Feeds
            THEN <<f.Feeds[source].Title>> \o rest
            ELSE rest

\* lines 216-227: the titles handed to provider.AddSource, in call order
RECURSIVE sourceTitles(_, _)
sourceTitles(f, sorted) ==
    IF sorted = <<>> THEN <<>>
    ELSE LET source == Head(sorted)
             rest == sourceTitles(f, Tail(sorted))
         IN IF source \in DOMAIN f.Feeds /\ f.Feeds[source].Title # ""
            THEN <<f.Feeds[source].Title>> \o rest
            ELSE rest

\* the (title, index) pairs lines 229-231 go through when the map feed.Feeds
\* is ranged over in the key order given
RECURSIVE bucketWork(_, _)
bucketWork(f, order) ==
    IF order = <<>> THEN <<>>
    ELSE LET s == f.Feeds[Head(order)] IN
         [k \in 1..Len(s.Entries) |-> <<s.Title, s.Entries[k]>>]
            \o bucketWork(f, Tail(order))

\* a plausible slip: put the new entry in front
appended_front(bucket, entry) == <<entry>> \o bucket

\* line 234: append(feed.Items[s.Title], entry)
appended(bucket, entry) == Append(bucket, entry)

\* feed.Items[name] read as Go reads a map: a missing key gives an empty slice
bucketOf(items, name) == IF name \in DOMAIN items THEN items[name] ELSE <<>>

\* lines 231-234 for each pair of work, stopping at the first panic
RECURSIVE fillBuckets(_, _)
fillBuckets(f, work) ==
    IF work = <<>> THEN Outcome(Ref(f), NoFault)
    ELSE LET title == Head(work)[1]
             i == Head(work)[2]
         IN IF i < 0 \/ i >= Len(f.Entries) THEN Outcome(Ref(f), IndexOutOfRange)
            ELSE IF f.Items = Nil THEN Outcome(Ref(f), NilItemsMap)
            ELSE fillBuckets(
                [f EXCEPT !.Items = Ref(
                    (title :> appended(bucketOf(f.Items[1], title), f.Entries[i + 1]))
                        @@ f.Items[1])],
                Tail(work))

\* the orders in which a range over a map with these keys can visit them
KeyOrders(keys) ==
    {o \in [1..Cardinality(keys) -> keys] :
        \A i, j \in 1..Cardinality(keys) : i # j => o[i] # o[j]}

\* lines 229-236, the map ranged over in the key order given
buildBuckets(fp, order) ==
    IF fp = Nil THEN Outcome(fp, NilFeedInProcess)
    ELSE fillBuckets(fp[1], bucketWork(fp[1], order))

\* processFeed from start to end on the Feed f, for one key order
processFeed(f, label, order) ==
    LET a == makeItems(Ref(f))
        b == IF a.fault = NoFault THEN describeEntries(a.feed) ELSE a
        c == IF b.fault = NoFault THEN buildAll(b.feed, label) ELSE b
        d == IF c.fault = NoFault THEN buildBuckets(c.feed, order) ELSE c
    IN d

(***************************************************************************)
(* Accessors and handleError (lines 81-109)                                *)
(***************************************************************************)

\* a plausible slip: image and link handed over in each other's place
FeedByName_linkImage(fp, name) ==
    IF fp # Nil /\ fp[1].Items # Nil /\ name \in DOMAIN fp[1].Items[1]
    THEN LET items == fp[1].Items[1][name] IN
         [k \in 1..Len(items) |->
            <<items[k].Title, items[k].Description, items[k].Link, items[k].Image>>]
    ELSE <<>>

\* FeedByName: the AddFeed calls the retriever receives, in call order
FeedByName(fp, name) ==
    IF fp # Nil /\ fp[1].Items # Nil /\ name \in DOMAIN fp[1].Items[1]
    THEN LET items == fp[1].Items[1][name] IN
         [k \in 1..Len(items) |->
            <<items[k].Title, items[k].Description, items[k].Image, items[k].Link>>]
    ELSE <<>>

\* NumFeedEntries: len(feed.Entries) dereferences feed
NumFeedEntries(fp) ==
    IF fp = Nil THEN [count |-> 0, fault |-> NilFeedInCount]
    ELSE [count |-> Len(fp[1].Entries), fault |-> NoFault]

\* CurrentFeed
CurrentFeed(fp) == fp

\* a plausible slip: log the error and leave feed as it is
handleError_keep(fp) == fp

\* handleError: what it leaves in feed
handleError(fp) == Nil

(***************************************************************************)
(* Bounds and inputs                                                       *)
(***************************************************************************)

\* doGetFeed invocations started in one run
MaxFetches == 3

\* entries of a document
MaxEntries == 3

\* entries of a document whose meta and content vary
MaxMetaEntries == 2

\* length of one Source's entry index list
MaxIndices == 3

\* length of a document's sorted_feeds list
MaxSorted == 3

\* goroutines that may call doGetFeed
Invocations == {1, 2}

SeqsUpTo(S, n) == UNION {[1..k -> S] : k \in 0..n}

AllLabels == {"All", "Tout"}

ProxyAddrs == {"", "127.0.0.1:8787"}

\* an endpoint whose URL http.NewRequest cannot parse (no scheme before the colon)
BadEndpoint == <<":", Verb>>

FetchEndpoints == {defaultFeedEndpoint, BadEndpoint}

FetchLocales == {en, fa, <<"d","e","_","D","E">>}

FetchCountries == {<<>>, <<"I","R">>}

\* line 138: http.NewRequest fails when the URL does not parse; of the URLs
\* built here only one with a leading colon does not
requestFails(u) == u # <<>> /\ Head(u) = ":"

DocNews ==
    [Feeds |-> ("a" :> Source("A", FALSE, <<1, 0>>))
                @@ ("b" :> Source("B", TRUE, <<2>>)),
     Entries |-> <<Item("n", 0, "a", MetaWith(JSONString(<<" ","d"," ">>)), <<"c">>),
                   Item("n", 1, "a", NoMeta, <<"c">>),
                   Item("n", 2, "b", MetaWith(JSONNull), <<>>)>>,
     Sorted |-> <<"b", "a">>]

DocSport ==
    [Feeds |-> ("c" :> Source("C", FALSE, <<0>>)),
     Entries |-> <<Item("s", 0, "c", NoMeta, <<"c">>)>>,
     Sorted |-> <<"c", "z">>]

DocOrphan ==
    [Feeds |-> ("a" :> Source("A", FALSE, <<>>)),
     Entries |-> <<Item("o", 0, "x", NoMeta, <<"c">>)>>,
     Sorted |-> <<"a">>]

\* the documents the server answers with in the fetch specifications
FetchDocs == {DocNews, DocSport, DocOrphan}

\* what ioutil.ReadAll can give: bytes that are no JSON (Nil) or a document
Payloads == {Nil} \cup {Ref(d) : d \in FetchDocs}

SourceNames == {"All", "Tout", "A", "B", "C", "nope"}

(***************************************************************************)
(* doGetFeed (lines 120-182), one action per statement that can fail or    *)
(* that touches the package variable feed                                  *)
(***************************************************************************)

\* a plausible slip: the body is closed at the end of the success path only
Failed_bodyLeft(p) ==
    /\ feed' = handleError(feed)
    /\ pc' = [pc EXCEPT ![p] = "failed"]
    /\ lastWriter' = p
    /\ UNCHANGED <<fault, bodyOpen>>

\* an error path: handleError, return, and the deferred res.Body.Close()
Failed(p) ==
    /\ feed' = handleError(feed)
    /\ pc' = [pc EXCEPT ![p] = "failed"]
    /\ bodyOpen' = [bodyOpen EXCEPT ![p] = FALSE]
    /\ lastWriter' = p
    /\ UNCHANGED fault

\* a step of processFeed that ends as out says: on a panic the deferred
\* res.Body.Close() still runs and the program stops
Stepped(p, out, next) ==
    /\ feed' = out.feed
    /\ fault' = out.fault
    /\ pc' = [pc EXCEPT ![p] = IF out.fault = NoFault THEN next ELSE "panicked"]
    /\ bodyOpen' = [bodyOpen EXCEPT
                        ![p] = IF out.fault = NoFault /\ next # "done"
                               THEN bodyOpen[p] ELSE FALSE]
    /\ lastWriter' = IF out.fault = NoFault /\ next = "done" THEN p ELSE lastWriter

\* lines 120-136: entry, feed = &Feed{}, locale fallback, getFeedURL
Begin(p) ==
    /\ fault = NoFault
    /\ pc[p] \in {"idle", "done", "failed"}
    /\ fetches < MaxFetches
    /\ \E feedEndpoint \in FetchEndpoints, locale \in FetchLocales,
          country \in FetchCountries, label \in AllLabels,
          proxyAddr \in ProxyAddrs :
            /\ url' = [url EXCEPT ![p] = fetchURL(feedEndpoint, locale, country).url]
            /\ proxy' = [proxy EXCEPT ![p] = proxyAddr]
            /\ allStr' = [allStr EXCEPT ![p] = label]
    /\ feed' = newFeed(feed)
    /\ pc' = [pc EXCEPT ![p] = "request"]
    /\ contents' = [contents EXCEPT ![p] = Nil]
    /\ bodyOpen' = [bodyOpen EXCEPT ![p] = FALSE]
    /\ added' = [added EXCEPT ![p] = <<>>]
    /\ fetches' = fetches + 1
    /\ UNCHANGED <<lastWriter, lastCall, fault, localeVars>>

\* lines 138-144: http.NewRequest; feedURL is not read after it
NewRequest(p) ==
    /\ fault = NoFault
    /\ pc[p] = "request"
    /\ IF requestFails(url[p])
       THEN Failed(p)
       ELSE /\ pc' = [pc EXCEPT ![p] = "client"]
            /\ UNCHANGED <<feed, bodyOpen, lastWriter, fault>>
    /\ url' = [url EXCEPT ![p] = <<>>]
    /\ UNCHANGED <<proxy, allStr, contents, added, fetches, lastCall, localeVars>>

\* lines 146-154: the direct client, or util.HTTPClient, which may fail;
\* proxyAddr is not read after it
NewClient(p) ==
    /\ fault = NoFault
    /\ pc[p] = "client"
    /\ \E ok \in BOOLEAN :
        IF proxy[p] = "" \/ ok
        THEN /\ pc' = [pc EXCEPT ![p] = "do"]
             /\ UNCHANGED <<feed, bodyOpen, lastWriter, fault>>
        ELSE Failed(p)
    /\ proxy' = [proxy EXCEPT ![p] = ""]
    /\ UNCHANGED <<url, allStr, contents, added, fetches, lastCall, localeVars>>

\* lines 156-161: httpClient.Do; a response leaves its body open
Do(p) ==
    /\ fault = NoFault
    /\ pc[p] = "do"
    /\ \/ /\ pc' = [pc EXCEPT ![p] = "gzip"]
          /\ bodyOpen' = [bodyOpen EXCEPT ![p] = TRUE]
          /\ UNCHANGED <<feed, lastWriter, fault>>
       \/ Failed(p)
    /\ UNCHANGED <<url, proxy, allStr, contents, added, fetches, lastCall, localeVars>>

\* lines 163-167: gzip.NewReader
GzipOpen(p) ==
    /\ fault = NoFault
    /\ pc[p] = "gzip"
    /\ \/ /\ pc' = [pc EXCEPT ![p] = "read"]
          /\ UNCHANGED <<feed, bodyOpen, lastWriter, fault>>
       \/ Failed(p)
    /\ UNCHANGED <<url, proxy, allStr, contents, added, fetches, lastCall, localeVars>>

\* lines 169-173: ioutil.ReadAll
ReadAll(p) ==
    /\ fault = NoFault
    /\ pc[p] = "read"
    /\ \/ /\ \E c \in Payloads : contents' = [contents EXCEPT ![p] = c]
          /\ pc' = [pc EXCEPT ![p] = "unmarshal"]
          /\ UNCHANGED <<feed, bodyOpen, lastWriter, fault>>
       \/ /\ Failed(p)
          /\ UNCHANGED contents
    /\ UNCHANGED <<url, proxy, allStr, added, fetches, lastCall, localeVars>>

\* a plausible slip: the return after handleError is missing, so a parse that
\* failed goes on into processFeed
DoUnmarshal_noReturn(p) ==
    /\ fault = NoFault
    /\ pc[p] = "unmarshal"
    /\ feed' = IF contents[p] = Nil \/ feed = Nil
               THEN handleError(feed)
               ELSE Ref(Unmarshal(feed[1], contents[p][1]))
    /\ pc' = [pc EXCEPT ![p] = "make"]
    /\ UNCHANGED <<bodyOpen, lastWriter, fault>>
    /\ UNCHANGED <<url, proxy, allStr, contents, added, fetches, lastCall, localeVars>>

\* lines 175-179: json.Unmarshal(contents, feed); it fails on bytes that are
\* no JSON and on a nil target
DoUnmarshal(p) ==
    /\ fault = NoFault
    /\ pc[p] = "unmarshal"
    /\ IF contents[p] = Nil \/ feed = Nil
       THEN Failed(p)
       ELSE /\ feed' = Ref(Unmarshal(feed[1], contents[p][1]))
            /\ pc' = [pc EXCEPT ![p] = "make"]
            /\ UNCHANGED <<bodyOpen, lastWriter, fault>>
    /\ UNCHANGED <<url, proxy, allStr, contents, added, fetches, lastCall, localeVars>>

\* lines 188-190
MakeItems(p) ==
    /\ fault = NoFault
    /\ pc[p] = "make"
    /\ Stepped(p, makeItems(feed), "describe")
    /\ UNCHANGED <<url, proxy, allStr, contents, added, fetches, lastCall, localeVars>>

\* lines 193-203
DescribeEntries(p) ==
    /\ fault = NoFault
    /\ pc[p] = "describe"
    /\ Stepped(p, describeEntries(feed), "all")
    /\ UNCHANGED <<url, proxy, allStr, contents, added, fetches, lastCall, localeVars>>

\* lines 207-213
BuildAll(p) ==
    /\ fault = NoFault
    /\ pc[p] = "all"
    /\ Stepped(p, buildAll(feed, allStr[p]), "sources")
    /\ UNCHANGED <<url, proxy, allStr, contents, added, fetches, lastCall, localeVars>>

\* lines 216-227
ListSources(p) ==
    /\ fault = NoFault
    /\ pc[p] = "sources"
    /\ IF feed = Nil
       THEN /\ Stepped(p, Outcome(feed, NilFeedInProcess), "buckets")
            /\ UNCHANGED added
       ELSE /\ Stepped(p, Outcome(feed, NoFault), "buckets")
            /\ added' = [added EXCEPT ![p] = sourceTitles(feed[1], feed[1].Sorted)]
    /\ UNCHANGED <<url, proxy, allStr, contents, fetches, lastCall, localeVars>>

\* lines 229-237, then the return of doGetFeed (line 182) with its deferred
\* res.Body.Close(); the range over the map feed.Feeds visits the keys in
\* any order
BuildBuckets(p) ==
    /\ fault = NoFault
    /\ pc[p] = "buckets"
    /\ IF feed = Nil
       THEN Stepped(p, Outcome(feed, NilFeedInProcess), "done")
       ELSE \E order \in KeyOrders(DOMAIN feed[1].Feeds) :
                Stepped(p, buildBuckets(feed, order), "done")
    /\ UNCHANGED <<url, proxy, allStr, contents, added, fetches, lastCall, localeVars>>

\* one invocation of doGetFeed (GetFeed is doGetFeed on defaultFeedEndpoint)
doGetFeed(p) ==
    \/ Begin(p)
    \/ NewRequest(p)
    \/ NewClient(p)
    \/ Do(p)
    \/ GzipOpen(p)
    \/ ReadAll(p)
    \/ DoUnmarshal(p)
    \/ MakeItems(p)
    \/ DescribeEntries(p)
    \/ BuildAll(p)
    \/ ListSources(p)
    \/ BuildBuckets(p)

(***************************************************************************)
(* Accessor calls, from any goroutine at any time                          *)
(***************************************************************************)

NoCall ==
    [op |-> "none", name |-> "", absent |-> TRUE, snapshot |-> Nil,
     calls |-> <<>>, count |-> 0]

CallCurrentFeed ==
    /\ fault = NoFault
    /\ lastCall' = [NoCall EXCEPT !.op = "CurrentFeed", !.absent = (feed = Nil),
                                  !.snapshot = CurrentFeed(feed)]
    /\ UNCHANGED <<feed, pc, url, proxy, allStr, contents, bodyOpen, added,
                   lastWriter, fetches, fault, localeVars>>

CallFeedByName ==
    /\ fault = NoFault
    /\ \E name \in SourceNames :
        lastCall' = [NoCall EXCEPT !.op = "FeedByName", !.name = name,
                                   !.absent = (feed = Nil),
                                   !.calls = FeedByName(feed, name)]
    /\ UNCHANGED <<feed, pc, url, proxy, allStr, contents, bodyOpen, added,
                   lastWriter, fetches, fault, localeVars>>

CallNumFeedEntries ==
    /\ fault = NoFault
    /\ lastCall' = [NoCall EXCEPT !.op = "NumFeedEntries", !.absent = (feed = Nil),
                                  !.count = NumFeedEntries(feed).count]
    /\ fault' = NumFeedEntries(feed).fault
    /\ UNCHANGED <<feed, pc, url, proxy, allStr, contents, bodyOpen, added,
                   lastWriter, fetches, localeVars>>

(***************************************************************************)
(* Specifications                                                          *)
(***************************************************************************)

NoLocaleCall == [op |-> "none", url |-> <<>>, locale |-> <<>>, lookedUp |-> FALSE]

IdleLocale ==
    /\ lreq = <<>>
    /\ lcountry = <<>>
    /\ ltmpl = defaultFeedEndpoint
    /\ lout = NoLocaleCall

IdleFetch ==
    /\ feed = Nil
    /\ pc = [p \in Invocations |-> "idle"]
    /\ url = [p \in Invocations |-> <<>>]
    /\ proxy = [p \in Invocations |-> ""]
    /\ allStr = [p \in Invocations |-> ""]
    /\ contents = [p \in Invocations |-> Nil]
    /\ bodyOpen = [p \in Invocations |-> FALSE]
    /\ added = [p \in Invocations |-> <<>>]
    /\ lastWriter = 0
    /\ fetches = 0
    /\ lastCall = NoCall
    /\ fault = NoFault

\* the state of the package after its variables are initialised
Init == IdleFetch /\ IdleLocale

\* fetches one at a time, accessor calls between any two steps
Next ==
    \/ doGetFeed(1)
    \/ CallCurrentFeed
    \/ CallFeedByName
    \/ CallNumFeedEntries

Spec == Init /\ [][Next]_vars

\* two goroutines calling doGetFeed, their steps interleaved
NextConc == \E p \in Invocations : doGetFeed(p)

SpecConc == Init /\ [][NextConc]_vars

(***************************************************************************)
(* Normalization on its own: processFeed on every document of a bounded    *)
(* set, started where json.Unmarshal has just filled a fresh Feed          *)
(***************************************************************************)

MetaChoices ==
    {NoMeta, MetaWith(JSONNull), MetaWith(JSONNumber), MetaWith(JSONObject),
     MetaWith(JSONString(<<>>)), MetaWith(JSONString(<<" ", "\t">>)),
     MetaWith(JSONString(<<" ", "d", " ", "x", "\n">>))}

ContentChoices == {<<>>, <<" ", "c">>}

\* documents whose entries vary in meta and content
DescDocs ==
    {[Feeds |-> ("a" :> Source("A", FALSE, <<0>>)),
      Entries |-> [i \in 1..Len(m) |-> Item("e", i - 1, "a", m[i][1], m[i][2])],
      Sorted |-> <<"a">>] :
        m \in SeqsUpTo(MetaChoices \X ContentChoices, MaxMetaEntries) \ {<<>>}}

\* the sources "a" and "b", each absent, included in or excluded from all
FlagMaps == UNION {[K -> BOOLEAN] : K \in SUBSET {"a", "b"}}

TitleOf(key) == IF key = "a" THEN "A" ELSE "B"

\* documents whose entries vary in the source they name, known or not
AllDocs ==
    {[Feeds |-> [k \in DOMAIN flags |-> Source(TitleOf(k), flags[k], <<>>)],
      Entries |-> [i \in 1..Len(src) |-> Item("e", i - 1, src[i], NoMeta, <<"c">>)],
      Sorted |-> <<"a", "b">>] :
        flags \in FlagMaps, src \in SeqsUpTo({"a", "b", "x"}, MaxEntries)}

\* index lists: every list up to MaxIndices over the valid indices and one
\* index on each side of them
IndexSeqs == SeqsUpTo(-1..MaxEntries, MaxIndices)

PlainEntries == [i \in 1..MaxEntries |-> Item("e", i - 1, "a", NoMeta, <<"c">>)]

SecondSources ==
    {EmptyMap} \cup
    {("b" :> Source(t, FALSE, ix)) : t \in {"A", "B"}, ix \in {<<>>, <<1, 0>>}}

\* documents whose sources vary in title and entry indices
BucketDocs ==
    {[Feeds |-> ("a" :> Source(t, FALSE, ix)) @@ second,
      Entries |-> PlainEntries,
      Sorted |-> <<"b", "a">>] :
        t \in {"A", "All"}, ix \in IndexSeqs, second \in SecondSources}

FirstSources == {("a" :> Source(t, FALSE, <<0>>)) : t \in {"A", ""}}

OtherSources ==
    {EmptyMap} \cup {("b" :> Source(t, TRUE, <<>>)) : t \in {"B", ""}}

\* documents whose sorted_feeds list varies: keys in any order, repeated,
\* unknown ("x"), and naming sources with and without a title
SortedDocs ==
    {[Feeds |-> first @@ other,
      Entries |-> <<Item("e", 0, "a", NoMeta, <<"c">>)>>,
      Sorted |-> sorted] :
        first \in FirstSources, other \in OtherSources,
        sorted \in SeqsUpTo({"a", "b", "x"}, MaxSorted)}

NormDocs == DescDocs \cup AllDocs \cup BucketDocs \cup SortedDocs

\* invocation 1 has read and parsed a document and is about to call processFeed
InitNorm ==
    /\ \E doc \in NormDocs, label \in AllLabels :
        /\ feed = Ref(Unmarshal(ZeroFeed, doc))
        /\ contents = [p \in Invocations |-> IF p = 1 THEN Ref(doc) ELSE Nil]
        /\ allStr = [p \in Invocations |-> IF p = 1 THEN label ELSE ""]
    /\ pc = [p \in Invocations |-> IF p = 1 THEN "make" ELSE "idle"]
    /\ url = [p \in Invocations |-> <<>>]
    /\ proxy = [p \in Invocations |-> ""]
    /\ bodyOpen = [p \in Invocations |-> p = 1]
    /\ added = [p \in Invocations |-> <<>>]
    /\ lastWriter = 0
    /\ fetches = 1
    /\ lastCall = NoCall
    /\ fault = NoFault
    /\ IdleLocale

NextNorm ==
    \/ MakeItems(1)
    \/ DescribeEntries(1)
    \/ BuildAll(1)
    \/ ListSources(1)
    \/ BuildBuckets(1)

SpecNorm == InitNorm /\ [][NextNorm]_vars

(***************************************************************************)
(* Locale resolution on its own                                            *)
(***************************************************************************)

LocaleInputs ==
    {<<>>, en, <<"E","N","_","u","s">>, <<"e","n","_","u","s">>,
     fa_IR, <<"f","a","_","i","r">>, fa, ms_MY, zh_CN,
     <<"d","e","_","D","E">>, <<"e","n">>, <<"e","n","_","G","B">>}

CountryInputs ==
    {<<>>, <<"I","R">>, <<"i","r">>, <<"I","r">>, <<"M","Y">>, <<"m","y">>,
     <<"m","Y">>, <<"U","S">>, <<"I">>, <<"I","R","N">>}

exampleEndpoint ==
    Https \o <<"e","x","a","m","p","l","e",".","o","r","g","/">>
          \o <<Verb>> \o FeedJson

EndpointInputs == {defaultFeedEndpoint, exampleEndpoint}

InitLocale ==
    /\ IdleFetch
    /\ lreq \in LocaleInputs
    /\ lcountry \in CountryInputs
    /\ ltmpl \in EndpointInputs
    /\ lout = NoLocaleCall

\* GetFeedURL / getFeedURL (lines 242-251)
CallGetFeedURL ==
    /\ lout' = [op |-> "getFeedURL"] @@ getFeedURL(ltmpl, lreq, lcountry)
    /\ UNCHANGED <<fetchVars, lreq, lcountry, ltmpl>>

\* doGetFeed up to line 136
ResolveFetchURL ==
    /\ lout' = [op |-> "doGetFeed"] @@ fetchURL(ltmpl, lreq, lcountry)
    /\ UNCHANGED <<fetchVars, lreq, lcountry, ltmpl>>

NextLocale == CallGetFeedURL \/ ResolveFetchURL

SpecLocale == InitLocale /\ [][NextLocale]_vars

(***************************************************************************)
(* Properties                                                              *)
(***************************************************************************)

\* the Feed the package variable points to
TheFeed == feed[1]

\* invocation 1 has left processFeed normally
Normalized == pc[1] = "done" /\ fault = NoFault /\ feed # Nil

\* the titles of a list of entries
TitlesOf(items) == [k \in 1..Len(items) |-> items[k].Title]

\* C1: once a fetch has ended in failure the shared feed state is absent and
\* CurrentFeed returns nil, whatever an earlier fetch had left there.
C1_FailedFetchClearsFeed ==
    pc[1] = "failed" => feed = Nil /\ CurrentFeed(feed) = Nil

\* C1 witness: a reader saw the per-source buckets of a successful first
\* fetch, and the second fetch has since failed.
C1_Witness ==
    /\ pc[1] = "failed"
    /\ fetches = 2
    /\ lastCall.op = "CurrentFeed"
    /\ lastCall.snapshot # Nil
    /\ lastCall.snapshot[1].Items # Nil
    /\ "A" \in DOMAIN lastCall.snapshot[1].Items[1]
    /\ feed = Nil

\* a document as a reader expects it: every description assigned, the all
\* bucket and every per-source bucket present
Complete(f) ==
    /\ f.Items # Nil
    /\ \E label \in AllLabels : label \in DOMAIN f.Items[1]
    /\ \A k \in DOMAIN f.Feeds :
        f.Feeds[k].Entries # <<>> => f.Feeds[k].Title \in DOMAIN f.Items[1]
    /\ \A i \in 1..Len(f.Entries) :
        ~assertionFails(f.Entries[i])
            => f.Entries[i].Description = describe(f.Entries[i])

\* C2: every non-absent document CurrentFeed hands to a reader is fully
\* populated, at whatever step of a running fetch the reader calls.
C2_ReadersSeeCompleteDocuments ==
    (lastCall.op = "CurrentFeed" /\ lastCall.snapshot # Nil)
        => Complete(lastCall.snapshot[1])

\* an entry of the wire document belongs in the all bucket
BelongsInAll(doc, e) ==
    e.Source \in DOMAIN doc.Feeds /\ ~doc.Feeds[e.Source].ExcludeFromAll

\* C3: normalization never stops on an entry whose source is unknown, and
\* after it an entry is in the all bucket exactly if its sourceKey names a
\* known source that is not excluded from all.
C3_AllBucketExclusion ==
    /\ fault # NilSource
    /\ Normalized =>
        LET doc == contents[1][1]
            all == bucketOf(TheFeed.Items[1], allStr[1])
        IN \A i \in 1..Len(doc.Entries) :
            (\E j \in 1..Len(all) : all[j].Title = doc.Entries[i].Title)
                <=> BelongsInAll(doc, doc.Entries[i])

\* a source of the wire document names an index outside entries
HasInvalidIndex(doc, k) ==
    \E j \in 1..Len(doc.Feeds[k].Entries) :
        doc.Feeds[k].Entries[j] < 0 \/ doc.Feeds[k].Entries[j] >= Len(doc.Entries)

\* the valid indices of a source, in their order
ValidIndices(doc, k) ==
    SelectSeq(doc.Feeds[k].Entries, LAMBDA i : i >= 0 /\ i < Len(doc.Entries))

\* C4: a document with an out-of-range entry index does not crash
\* normalization; it completes and the source's bucket holds the entries of
\* its valid indices.
C4_InvalidIndexSkipped ==
    (contents[1] # Nil /\ \E k \in DOMAIN contents[1][1].Feeds :
                            HasInvalidIndex(contents[1][1], k))
        => /\ fault # IndexOutOfRange
           /\ Normalized =>
                \A k \in DOMAIN contents[1][1].Feeds :
                    \A j \in 1..Len(ValidIndices(contents[1][1], k)) :
                        \E m \in 1..Len(bucketOf(TheFeed.Items[1], TheFeed.Feeds[k].Title)) :
                            bucketOf(TheFeed.Items[1], TheFeed.Feeds[k].Title)[m].Title
                                = contents[1][1].Entries[ValidIndices(contents[1][1], k)[j] + 1].Title

\* C5: an accessor called while the feed state is absent returns without a
\* fault: no AddFeed call, nil from CurrentFeed, a count of no entries.
C5_AccessorsSafeWhenAbsent ==
    (lastCall.op # "none" /\ lastCall.absent)
        => /\ fault # NilFeedInCount
           /\ lastCall.calls = <<>>
           /\ lastCall.snapshot = Nil
           /\ lastCall.count = 0

\* what invocation p leaves in feed when it runs alone
OwnOutcomes(p) ==
    IF pc[p] = "failed" THEN {Nil}
    ELSE LET f == Unmarshal(ZeroFeed, contents[p][1]) IN
         {processFeed(f, allStr[p], o).feed : o \in KeyOrders(DOMAIN f.Feeds)}

\* C6: overlapping fetches do not make each other fault, and once both have
\* finished feed holds what the invocation that finished last produces on
\* its own.
C6_LastWriterWins ==
    /\ fault \notin {NilFeedInProcess, NilItemsMap}
    /\ (\A p \in Invocations : pc[p] \in {"done", "failed"})
        => feed \in OwnOutcomes(lastWriter)

\* the spellings that equal a word but for the case of its letters
EnUSSpellings ==
    {<<a, b, "_", c, d>> : a \in {"e", "E"}, b \in {"n", "N"},
                           c \in {"u", "U"}, d \in {"s", "S"}}
IRSpellings == {<<a, b>> : a \in {"i", "I"}, b \in {"r", "R"}}
MYSpellings == {<<a, b>> : a \in {"m", "M"}, b \in {"y", "Y"}}

\* a template with its one verb replaced by a locale
UrlWith(template, locale) ==
    LET k == CHOOSE i \in 1..Len(template) : template[i] = Verb IN
    SubSeq(template, 1, k - 1) \o locale \o SubSeq(template, k + 1, Len(template))

\* the locale a lookup turns en_US into
GeoLocale(country, otherwise) ==
    IF country \in IRSpellings THEN fa_IR
    ELSE IF country \in MYSpellings THEN ms_MY
    ELSE otherwise

\* C7 as stated: for a requested locale outside the supported set the locale
\* doGetFeed puts into the feed URL is en_US, whatever the country lookup gives.
C7_UnsupportedLocaleGivesDefault ==
    (lout.op = "doGetFeed" /\ lreq \notin supportedLocales)
        => lout.locale = en /\ lout.url = UrlWith(ltmpl, en)

\* C7 amended: for a requested locale outside the supported set doGetFeed
\* hands en_US to the URL derivation, which looks the country up: the feed
\* URL carries fa_IR for country IR, ms_MY for MY, and en_US otherwise.
C7_UnsupportedLocaleGivesDefaultThenGeo ==
    (lout.op = "doGetFeed" /\ lreq \notin supportedLocales)
        => /\ lout.lookedUp
           /\ lout.locale = GeoLocale(lcountry, en)
           /\ lout.url = UrlWith(ltmpl, GeoLocale(lcountry, en))

\* C7 witness: an unsupported locale, resolved in Iran
C7_Witness ==
    /\ lout.op = "doGetFeed"
    /\ lreq = <<"d","e","_","D","E">>
    /\ lcountry = <<"i","r">>
    /\ lout.locale = fa_IR

\* C8: getFeedURL looks the country up exactly if the given locale is empty
\* or equals en_US but for case; then IR gives fa_IR, MY gives ms_MY, and
\* anything else the default; otherwise the given locale is used as it is.
\* The template https://example.org/%s/feed.json with en_US in IR gives
\* https://example.org/fa_IR/feed.json.
C8_EndpointLocale ==
    lout.op = "getFeedURL" =>
        LET lookup == lreq = <<>> \/ lreq \in EnUSSpellings
            given == IF lreq = <<>> THEN en ELSE lreq
            expected == IF lookup THEN GeoLocale(lcountry, given) ELSE lreq
        IN /\ lout.lookedUp = lookup
           /\ lout.locale = expected
           /\ lout.url = UrlWith(ltmpl, expected)
           /\ (ltmpl = exampleEndpoint /\ lreq = en /\ lcountry = <<"I","R">>)
                => lout.url =
                    <<"h","t","t","p","s",":","/","/","e","x","a","m","p","l","e",
                      ".","o","r","g","/","f","a","_","I","R","/","f","e","e","d",
                      ".","j","s","o","n">>

\* C8 witness: en_US given in another case, the country MY in lower case
C8_Witness ==
    /\ lout.op = "getFeedURL"
    /\ lreq = <<"E","N","_","u","s">>
    /\ lcountry = <<"m","y">>
    /\ lout.lookedUp
    /\ lout.locale = ms_MY

\* the description the claim gives an entry of the wire document
ClaimedDescription(e) ==
    IF /\ "description" \in DOMAIN e.Meta
       /\ e.Meta["description"].kind = "string"
       /\ TrimSpace(e.Meta["description"].val) # <<>>
    THEN TrimSpace(e.Meta["description"].val)
    ELSE e.Content

\* C9: normalization gives every entry a description: the trimmed meta
\* description if that is a non-empty string, the content in every other
\* case, a meta description that is no string included.
C9_DescriptionDerivation ==
    /\ fault # NotAString
    /\ (pc[1] \in {"all", "sources", "buckets", "done"} /\ feed # Nil) =>
        \A i \in 1..Len(TheFeed.Entries) :
            TheFeed.Entries[i].Description
                = ClaimedDescription(contents[1][1].Entries[i])

\* the entries a source's index list names, in the list's order
Indexed(f, k) ==
    [j \in 1..Len(f.Feeds[k].Entries) |-> f.Entries[f.Feeds[k].Entries[j] + 1]]

\* C10 as stated: after normalization the bucket of each source's title is
\* the entries of its entryIndices, in that order.
C10_BucketIsIndexList ==
    Normalized =>
        \A k \in DOMAIN TheFeed.Feeds :
            bucketOf(TheFeed.Items[1], TheFeed.Feeds[k].Title) = Indexed(TheFeed, k)

\* the title of source k is no other source's and is not the all label
OwnTitle(f, k, label) ==
    /\ f.Feeds[k].Title # label
    /\ \A other \in DOMAIN f.Feeds \ {k} : f.Feeds[other].Title # f.Feeds[k].Title

\* C10 amended: after normalization, for each source whose title is shared
\* with no other source and differs from the all label, the bucket of that
\* title is the entries of its entryIndices, in that order.
C10_OwnBucketIsIndexList ==
    Normalized =>
        \A k \in DOMAIN TheFeed.Feeds :
            OwnTitle(TheFeed, k, allStr[1]) =>
                bucketOf(TheFeed.Items[1], TheFeed.Feeds[k].Title) = Indexed(TheFeed, k)

\* C10 witness: entryIndices [2, 0, 1] gave a bucket of entries 2, 0, 1
C10_Witness ==
    /\ Normalized
    /\ "a" \in DOMAIN TheFeed.Feeds
    /\ TheFeed.Feeds["a"].Entries = <<2, 0, 1>>
    /\ OwnTitle(TheFeed, "a", allStr[1])
    /\ TitlesOf(bucketOf(TheFeed.Items[1], TheFeed.Feeds["a"].Title))
        = <<"e2", "e0", "e1">>

\* the keys of sorted_feeds that name a source with a title, in their order
ListedKeys(doc) ==
    SelectSeq(doc.Sorted,
              LAMBDA k : k \in DOMAIN doc.Feeds /\ doc.Feeds[k].Title # "")

\* C11: once the source listing of processFeed has run, the AddSource calls
\* made are the titles of the sorted_feeds keys that name a source with a
\* non-empty title, in that order and once per key; the other keys give no
\* call and do not stop the listing; no call is made before the listing.
C11_AddSourceCalls ==
    /\ pc[1] \in {"make", "describe", "all", "sources"} => added[1] = <<>>
    /\ (pc[1] \in {"buckets", "done"} \/ fault = IndexOutOfRange) =>
        LET doc == contents[1][1]
            keys == ListedKeys(doc)
        IN added[1] = [i \in 1..Len(keys) |-> doc.Feeds[keys[i]].Title]

\* C11 witness: sorted_feeds names an unknown key, a source without a title
\* and a titled source; only the titled one was announced
C11_Witness ==
    /\ pc[1] = "done"
    /\ contents[1][1].Sorted = <<"x", "b", "a">>
    /\ "b" \in DOMAIN contents[1][1].Feeds
    /\ contents[1][1].Feeds["b"].Title = ""
    /\ added[1] = <<"A">>
\* C12: a call FeedByName(name, retriever) makes one AddFeed call per entry
\* of the bucket of that name, in the bucket's order, with the entry's
\* title, description, image and link; when feed is nil, its Items is not
\* yet made, or the name is no key of it, it makes no call, and it never
\* faults.
C12_FeedByNameCalls ==
    [][(lastCall' # lastCall /\ lastCall'.op = "FeedByName") =>
        /\ fault' = NoFault
        /\ IF /\ feed # Nil
              /\ feed[1].Items # Nil
              /\ lastCall'.name \in DOMAIN feed[1].Items[1]
           THEN LET bucket == feed[1].Items[1][lastCall'.name] IN
                /\ Len(lastCall'.calls) = Len(bucket)
                /\ \A k \in 1..Len(bucket) :
                    /\ lastCall'.calls[k][1] = bucket[k].Title
                    /\ lastCall'.calls[k][2] = bucket[k].Description
                    /\ lastCall'.calls[k][3] = bucket[k].Image
                    /\ lastCall'.calls[k][4] = bucket[k].Link
           ELSE lastCall'.calls = <<>>]_vars

\* C12 witness: the bucket "A" of the news document, built from the index
\* list [1, 0], was handed over entry by entry in that order
C12_Witness ==
    /\ lastCall.op = "FeedByName"
    /\ lastCall.name = "A"
    /\ lastCall.calls = << <<"n1", <<"c">>, "img-n1", "link-n1">>,
                           <<"n0", <<"d">>, "img-n0", "link-n0">> >>
\* C13: after a successful fetch every bucket key is the all label or the
\* title of a source of that fetch's document, and every bucketed entry is
\* an entry of that document: nothing of an earlier fetch remains.
C13_NoStaleBuckets ==
    pc[1] = "done" =>
        LET doc == contents[1][1]
            items == TheFeed.Items[1]
        IN /\ DOMAIN items \subseteq
                {allStr[1]} \cup {doc.Feeds[k].Title : k \in DOMAIN doc.Feeds}
           /\ \A name \in DOMAIN items : \A j \in 1..Len(items[name]) :
                \E i \in 1..Len(doc.Entries) :
                    items[name][j].Title = doc.Entries[i].Title
           /\ DOMAIN TheFeed.Feeds = DOMAIN doc.Feeds
           /\ TitlesOf(TheFeed.Entries) = TitlesOf(doc.Entries)

\* C13 witness: a reader was handed the bucket "C" of the sport document,
\* and a later fetch of the news document has succeeded; "C" is gone
C13_Witness ==
    /\ pc[1] = "done"
    /\ fetches >= 2
    /\ contents[1] = Ref(DocNews)
    /\ lastCall.op = "FeedByName"
    /\ lastCall.name = "C"
    /\ lastCall.calls # <<>>
    /\ "C" \notin DOMAIN TheFeed.Items[1]
\* C14: whenever invocation 1 is not inside doGetFeed (it has returned
\* after success or after any failure, or a panic has unwound it), the
\* response body it received is closed.
C14_BodyReleased ==
    pc[1] \in {"idle", "done", "failed", "panicked"} => ~bodyOpen[1]

\* C14 witness: a fetch whose request was answered has parsed its document
\* and returned, and its body is closed
C14_Witness ==
    /\ pc[1] = "done"
    /\ contents[1] # Nil
    /\ ~bodyOpen[1]
\* C15: with fetches one at a time, whenever no fetch is in progress feed is
\* nil or a fully normalized document whose Items is made and holds the all
\* label; the empty Feed of line 128 is never what a finished fetch leaves.
C15_IdleStateNilOrNormalized ==
    pc[1] \in {"idle", "done", "failed"} =>
        \/ feed = Nil
        \/ /\ feed # Ref(ZeroFeed)
           /\ Complete(TheFeed)
           /\ allStr[1] \in DOMAIN TheFeed.Items[1]

\* C15 witness: a second fetch has returned and left a normalized document
C15_Witness ==
    /\ pc[1] = "done"
    /\ fetches = 2
    /\ feed # Nil
    /\ allStr[1] \in DOMAIN TheFeed.Items[1]
    /\ TheFeed.Entries # <<>>
\* C16 as stated: after normalization the bucket under the all label is
\* exactly the list the exclusion step built (the entries whose source is not
\* excluded, in document order); the per-source step has added nothing to it.
C16_AllBucketUntouched ==
    Normalized => bucketOf(TheFeed.Items[1], allStr[1]) = allOf(TheFeed)

\* C17 as stated: for the document and the all label of this run, processFeed
\* ends with the same feed state whatever order it ranges over feed.Feeds in.
C17_OrderIndependent ==
    Normalized =>
        \A order \in KeyOrders(DOMAIN TheFeed.Feeds) :
            processFeed(Unmarshal(ZeroFeed, contents[1][1]), allStr[1], order).feed
                = feed
\* the positions of doGetFeed inside processFeed before and after the
\* listing of lines 216-227
BeforeListing == {"make", "describe", "all", "sources"}
AfterListing == {"buckets", "done", "panicked"}

\* C18: a fetch that ended in an error has made no AddSource call;
\* processFeed is entered only with bytes that parsed, and every AddSource
\* call of a fetch comes after the parse of its own document.
C18_AddSourceOnlyAfterParse ==
    /\ pc[1] = "failed" => added[1] = <<>>
    /\ pc[1] \in BeforeListing => contents[1] # Nil /\ added[1] = <<>>
    /\ added[1] # <<>> => contents[1] # Nil /\ pc[1] \in AfterListing

\* C18 witness: a fetch has failed without an AddSource call, after an
\* earlier fetch had published entries a reader got from FeedByName
C18_Witness ==
    /\ pc[1] = "failed"
    /\ fetches >= 2
    /\ added[1] = <<>>
    /\ feed = Nil
    /\ lastCall.op = "FeedByName"
    /\ lastCall.calls # <<>>
====
